---- MODULE Spec2Model ----
(***************************************************************************)
(* License lifecycle of the mixer PWA's Netlify functions: the activation  *)
(* ledger (activate.js, deactivate.js), the order webhook that issues      *)
(* licenses (generate.js) and the tables they share.  Every datastore or   *)
(* upstream call is one atomic step; a handler is the chain of its calls.  *)
(***************************************************************************)
EXTENDS Integers, FiniteSets, Sequences, TLC

\* ------------------------------------------------------------------ bounds
NumReq == 2          \* request slots that may be in flight together
MaxClock == 1        \* the clock runs over 0..MaxClock
MaxCap == 2          \* largest max_devices of an admin-created license

ReqIds == 1..NumReq
Devices == {"dA", "dB", "dC"}
Keys == {"K1", "K2", "K3"}
Missing == ""                      \* an absent / empty JSON field (falsy)
Times == 0..MaxClock

\* ------------------------------------------------------------------ state
VARIABLES
  licenses,      \* table licenses: set of rows [key, status, plan, max_devices, order_id]
  activations,   \* table activations: set of rows [license_key, device_id, active, first_activated, last_seen]
  now,           \* wall clock read by new Date()
  lreq,          \* activate/deactivate requests in flight: slot -> locals of the handler
  last,          \* the response sent most recently, with the request it answers
  secret,        \* process.env.WC_WEBHOOK_SECRET
  woo,           \* the upstream orders: order id -> [meta, notes]
  greq,          \* generate requests in flight: slot -> locals of the handler
  glast,         \* the generate response sent most recently, with its request
  sigcall,       \* one call of a webhook signature verifier: arguments and outcome
  cache,         \* the service worker's Cache Storage: [name, entries]
  fetched        \* the fetch event handled most recently, with what answered it

ledgerVars == <<activations, now, lreq, last>>
issueVars == <<secret, woo, greq, glast>>
edgeVars == <<sigcall, cache, fetched>>
vars == <<licenses, ledgerVars, issueVars, edgeVars>>

NoOrder == 0                       \* order_id NULL
LicenseRow(k, st, md, o) ==
  [key |-> k, status |-> st, plan |-> "full", max_devices |-> md, order_id |-> o]

\* ---------------------------------------------------------- table queries
\* .from('licenses').select(...).eq('key', key)
LicensesByKey(key) == {l \in licenses : l.key = key}

\* .from('activations').select(...).eq('license_key', key).eq('device_id', deviceId)
ActivationsOf(key, dev) ==
  {a \in activations : a.license_key = key /\ a.device_id = dev}

\* .from('activations').select('device_id').eq('license_key', key)
RowsOfKey(key) == {a \in activations : a.license_key = key}

\* a count of the devices that are active now
DistinctActiveDevices(rows) == Cardinality({a.device_id : a \in {b \in rows : b.active}})

\* new Set(rows.map(r => r.device_id)).size
DistinctDevices(rows) == Cardinality({a.device_id : a \in rows})

\* an update that stamps first_activated as well
UpdateActivationRestamping(key, dev, act, t) ==
  {IF a.license_key = key /\ a.device_id = dev
     THEN [a EXCEPT !.active = act, !.last_seen = t, !.first_activated = t]
     ELSE a : a \in activations}

\* an update that sets the flag and leaves last_seen as it is
UpdateActivationKeepingSeen(key, dev, act, t) ==
  {IF a.license_key = key /\ a.device_id = dev
     THEN [a EXCEPT !.active = act]
     ELSE a : a \in activations}

\* .update({active, last_seen}).eq('license_key', key).eq('device_id', deviceId)
UpdateActivation(key, dev, act, t) ==
  {IF a.license_key = key /\ a.device_id = dev
     THEN [a EXCEPT !.active = act, !.last_seen = t]
     ELSE a : a \in activations}

\* ------------------------------------------------------------- responses
\* res(body, status): the JSON body's fields plus the HTTP status
Res(body, status) == [statusCode |-> status, body |-> body]

\* ----------------------------------------------------- activation ledger
NoResp == Res([pending |-> TRUE], 0)
DbErrorText == "datastore error text"     \* error.message of a failed call

\* locals of one invocation; preUsed, preHas and pre record the ledger as it
\* was when the request arrived: the devices registered with the key, whether
\* the pair had a row, and the activations table (history, never read by the
\* code)
LReq(pc, op, key, dev, max, resp, preUsed, preHas, pre) ==
  [pc |-> pc, op |-> op, key |-> key, dev |-> dev, max |-> max, resp |-> resp,
   preUsed |-> preUsed, preHas |-> preHas, pre |-> pre]

IdleReq == LReq("idle", "none", Missing, Missing, 0, NoResp, 0, FALSE, {})

\* return res(...): the handler ends, its response is the latest one sent
Finish(p, r, resp) ==
  /\ lreq' = [lreq EXCEPT ![p] = IdleReq]
  /\ last' = [r EXCEPT !.pc = "done", !.resp = resp]

Continue(p, r) ==
  /\ lreq' = [lreq EXCEPT ![p] = r]
  /\ UNCHANGED last

\* if (used >= lic.max_devices)
CapReachedOffByOne(used, max) == used > max
CapReached(used, max) == used >= max

\* const used = new Set((rows || []).map(r => r.device_id)).size
UsedActiveOnly(key) == DistinctDevices({a \in RowsOfKey(key) : a.active})
Used(key) == DistinctDevices(RowsOfKey(key))

\* a variant of the first step that reads the license without looking at
\* the parameters
ActivateStartUnchecked(p, key, dev) ==
  /\ lreq[p].pc = "idle"
  /\ LET r == LReq("idle", "activate", key, dev, 0, NoResp,
                   Cardinality({a.device_id : a \in RowsOfKey(key)}),
                   ActivationsOf(key, dev) # {}, activations)
     IN \E fail \in BOOLEAN :
          LET found == LicensesByKey(key) IN
          IF fail \/ found = {}
            THEN Finish(p, r, Res([ok |-> FALSE, reason |-> "not_found",
                                  detail |-> DbErrorText], 200))
            ELSE LET lic == CHOOSE l \in found : TRUE IN
                 IF lic.status # "active"
                   THEN Finish(p, r, Res([ok |-> FALSE, reason |-> "revoked"], 200))
                   ELSE Continue(p, [r EXCEPT !.pc = "lookup", !.max = lic.max_devices])
  /\ UNCHANGED <<licenses, activations, now, issueVars, edgeVars>>

\* a variant of the first step that does not look at the license's status
ActivateStartAnyStatus(p, key, dev) ==
  /\ lreq[p].pc = "idle"
  /\ LET r == LReq("idle", "activate", key, dev, 0, NoResp,
                   Cardinality({a.device_id : a \in RowsOfKey(key)}),
                   ActivationsOf(key, dev) # {}, activations)
     IN IF key = Missing \/ dev = Missing
          THEN Finish(p, r, Res([ok |-> FALSE, reason |-> "missing_params"], 400))
          ELSE \E fail \in BOOLEAN :
                 LET found == LicensesByKey(key) IN
                 IF fail \/ found = {}
                   THEN Finish(p, r, Res([ok |-> FALSE, reason |-> "not_found",
                                         detail |-> DbErrorText], 200))
                   ELSE Continue(p, [r EXCEPT !.pc = "lookup",
                                             !.max = (CHOOSE l \in found : TRUE).max_devices])
  /\ UNCHANGED <<licenses, activations, now, issueVars, edgeVars>>

\* activate.js handler, lines 6-23: parameter check, then 1) read license
ActivateStart(p, key, dev) ==
  /\ lreq[p].pc = "idle"
  /\ LET r == LReq("idle", "activate", key, dev, 0, NoResp,
                   Cardinality({a.device_id : a \in RowsOfKey(key)}),
                   ActivationsOf(key, dev) # {}, activations)
     IN IF key = Missing \/ dev = Missing
          THEN Finish(p, r, Res([ok |-> FALSE, reason |-> "missing_params"], 400))
          ELSE \E fail \in BOOLEAN :
                 LET found == LicensesByKey(key) IN
                 IF fail \/ found = {}
                   THEN \* .single() reports an error for zero rows as well
                        Finish(p, r, Res([ok |-> FALSE, reason |-> "not_found",
                                         detail |-> DbErrorText], 200))
                   ELSE LET lic == CHOOSE l \in found : TRUE IN
                        IF lic.status # "active"
                          THEN Finish(p, r, Res([ok |-> FALSE, reason |-> "revoked"], 200))
                          ELSE Continue(p, [r EXCEPT !.pc = "lookup", !.max = lic.max_devices])
  /\ UNCHANGED <<licenses, activations, now, issueVars, edgeVars>>

\* activate.js lines 25-37: 2) look the device's row up
ActLookup(p) ==
  /\ lreq[p].pc = "lookup"
  /\ \E fail \in BOOLEAN :
       LET r == lreq[p]
           existing == ActivationsOf(r.key, r.dev)
       IN IF fail
            THEN Finish(p, r, Res([ok |-> FALSE, reason |-> "db_select_failed",
                                  detail |-> DbErrorText], 500))
            ELSE Continue(p, [r EXCEPT !.pc = IF existing # {} THEN "update" ELSE "count"])
  /\ UNCHANGED <<licenses, activations, now, issueVars, edgeVars>>

\* a variant of the reuse branch that re-checks the cap before reactivating
ActReuseCapChecked(p) ==
  /\ lreq[p].pc = "update"
  /\ LET r == lreq[p] IN
       IF CapReached(Used(r.key), r.max)
         THEN /\ Finish(p, r, Res([ok |-> FALSE, reason |-> "device_limit_reached",
                                  max_devices |-> r.max], 409))
              /\ UNCHANGED activations
         ELSE /\ activations' = UpdateActivation(r.key, r.dev, TRUE, now)
              /\ Finish(p, r, Res([ok |-> TRUE, reused |-> TRUE], 200))
  /\ UNCHANGED <<licenses, now, issueVars, edgeVars>>

\* activate.js lines 37-45: the row exists, reactivate it
ActReuse(p) ==
  /\ lreq[p].pc = "update"
  /\ \E fail \in BOOLEAN :
       LET r == lreq[p] IN
       IF fail
         THEN /\ Finish(p, r, Res([ok |-> FALSE, reason |-> "db_update_failed",
                                  detail |-> DbErrorText], 500))
              /\ UNCHANGED activations
         ELSE /\ activations' = UpdateActivation(r.key, r.dev, TRUE, now)
              /\ Finish(p, r, Res([ok |-> TRUE, reused |-> TRUE], 200))
  /\ UNCHANGED <<licenses, now, issueVars, edgeVars>>

\* a variant of the cap check that records the refused device as an inactive
\* row
ActCountRecordingRefused(p) ==
  /\ lreq[p].pc = "count"
  /\ LET r == lreq[p] IN
       IF CapReached(Used(r.key), r.max)
         THEN /\ Finish(p, r, Res([ok |-> FALSE, reason |-> "device_limit_reached",
                                  max_devices |-> r.max], 409))
              /\ activations' = activations \cup
                   {[license_key |-> r.key, device_id |-> r.dev, active |-> FALSE,
                     first_activated |-> now, last_seen |-> now]}
         ELSE /\ Continue(p, [r EXCEPT !.pc = "insert"])
              /\ UNCHANGED activations
  /\ UNCHANGED <<licenses, now, issueVars, edgeVars>>

\* activate.js lines 47-58: 3) count the devices ever registered, enforce the cap
ActCount(p) ==
  /\ lreq[p].pc = "count"
  /\ \E fail \in BOOLEAN :
       LET r == lreq[p] IN
       IF fail
         THEN Finish(p, r, Res([ok |-> FALSE, reason |-> "db_select_failed",
                               detail |-> DbErrorText], 500))
         ELSE IF CapReached(Used(r.key), r.max)
           THEN Finish(p, r, Res([ok |-> FALSE, reason |-> "device_limit_reached",
                                 max_devices |-> r.max], 409))
           ELSE Continue(p, [r EXCEPT !.pc = "insert"])
  /\ UNCHANGED <<licenses, activations, now, issueVars, edgeVars>>

\* activate.js lines 60-76: 4) insert the new device; UNIQUE(license_key,
\* device_id) makes the datastore reject a second row for the pair
ActInsert(p) ==
  /\ lreq[p].pc = "insert"
  /\ \E fail \in BOOLEAN :
       LET r == lreq[p] IN
       IF fail \/ ActivationsOf(r.key, r.dev) # {}
         THEN /\ Finish(p, r, Res([ok |-> FALSE, reason |-> "db_insert_failed",
                                  detail |-> DbErrorText], 500))
              /\ UNCHANGED activations
         ELSE /\ activations' = activations \cup
                   {[license_key |-> r.key, device_id |-> r.dev, active |-> TRUE,
                     first_activated |-> now, last_seen |-> now]}
              /\ Finish(p, r, Res([ok |-> TRUE, reused |-> FALSE], 200))
  /\ UNCHANGED <<licenses, now, issueVars, edgeVars>>

\* a variant of deactivate that removes the row
DeactivateDeleting(p, key, dev) ==
  /\ lreq[p].pc = "idle"
  /\ LET r == LReq("idle", "deactivate", key, dev, 0, NoResp,
                   Cardinality({a.device_id : a \in RowsOfKey(key)}),
                   ActivationsOf(key, dev) # {}, activations)
     IN /\ activations' = activations \ ActivationsOf(key, dev)
        /\ Finish(p, r, Res([ok |-> TRUE], 200))
  /\ UNCHANGED <<licenses, now, issueVars, edgeVars>>

\* a variant of deactivate that creates the row when there is none
DeactivateUpserting(p, key, dev) ==
  /\ lreq[p].pc = "idle"
  /\ LET r == LReq("idle", "deactivate", key, dev, 0, NoResp,
                   Cardinality({a.device_id : a \in RowsOfKey(key)}),
                   ActivationsOf(key, dev) # {}, activations)
     IN /\ activations' =
             IF ActivationsOf(key, dev) # {}
               THEN UpdateActivation(key, dev, FALSE, now)
               ELSE activations \cup
                      {[license_key |-> key, device_id |-> dev, active |-> FALSE,
                        first_activated |-> now, last_seen |-> now]}
        /\ Finish(p, r, Res([ok |-> TRUE], 200))
  /\ UNCHANGED <<licenses, now, issueVars, edgeVars>>

\* deactivate.js handler: parameter check and the one update call
Deactivate(p, key, dev) ==
  /\ lreq[p].pc = "idle"
  /\ LET r == LReq("idle", "deactivate", key, dev, 0, NoResp,
                   Cardinality({a.device_id : a \in RowsOfKey(key)}),
                   ActivationsOf(key, dev) # {}, activations)
     IN IF key = Missing \/ dev = Missing
          THEN /\ Finish(p, r, Res([ok |-> FALSE, reason |-> "missing_params"], 400))
               /\ UNCHANGED activations
          ELSE \E fail \in BOOLEAN :
                 IF fail
                   THEN /\ Finish(p, r, Res([ok |-> FALSE, reason |-> "db_update_failed"], 500))
                        /\ UNCHANGED activations
                   ELSE /\ activations' = UpdateActivation(key, dev, FALSE, now)
                        /\ Finish(p, r, Res([ok |-> TRUE], 200))
  /\ UNCHANGED <<licenses, now, issueVars, edgeVars>>

\* out-of-band administrative action: active -> revoked
AdminRevoke(k) ==
  /\ \E l \in licenses : l.key = k /\ l.status = "active"
  /\ licenses' = {IF l.key = k THEN [l EXCEPT !.status = "revoked"] ELSE l : l \in licenses}
  /\ UNCHANGED <<ledgerVars, issueVars, edgeVars>>

\* ------------------------------------------------------ license issuance
NumOrders == 1          \* upstream orders 1..NumOrders
Orders == 1..NumOrders
GenKeys == {"K1", "K2"}            \* what makeKey can return
NoKey == ""                        \* no _license_key meta / no key chosen yet
Undefined == "undefined"           \* an unset env variable or query parameter
IssueMaxDevices == 2

\* raw request bodies: JSON text of an order ({id, status}) or text that
\* does not parse; id 0 stands for a payload without id
Statuses == {"processing", "Completed", "pending"}
Body(json, id, st) == [json |-> json, id |-> id, status |-> st]
Bodies ==
  {Body(TRUE, o, st) : o \in Orders \cup {NoOrder}, st \in Statuses}
    \cup {Body(FALSE, NoOrder, "")}

\* String(...).toLowerCase()
ToLowerCase(st) == IF st = "Completed" THEN "completed" ELSE st

\* base64(HMAC-SHA256(body, key)): distinct (key, body) pairs give distinct
\* values; the header carries such a value, some other text, or is absent
Hmac(k, body) == [mac |-> TRUE, k |-> k, body |-> body]
NoSig == [mac |-> FALSE, k |-> "", body |-> Body(FALSE, NoOrder, "")]
Garbage == [mac |-> FALSE, k |-> "garbage", body |-> Body(FALSE, NoOrder, "")]

\* crypto.createHmac('sha256', WC_WEBHOOK_SECRET || '').update(bodyRaw).digest('base64')
Digest(bodyRaw) == Hmac(IF secret = Undefined THEN "" ELSE secret, bodyRaw)

\* hasSig && digest === sig
VerifiedAnySignature(sig, bodyRaw) == sig # NoSig
Verified(sig, bodyRaw) == sig # NoSig /\ Digest(bodyRaw) = sig

\* what the supplied signature is, measured against the configured secret
SigClass(sig, bodyRaw) ==
  IF sig = NoSig THEN "absent"
  ELSE IF secret # Undefined /\ sig = Hmac(secret, bodyRaw) THEN "valid"
  ELSE IF secret # Undefined /\ \E b \in Bodies : sig = Hmac(secret, b) THEN "other_body"
  ELSE "wrong"

\* one HTTP request to the generate function
Request(method, ping, test_order, auth, sig, body) ==
  [method |-> method, ping |-> ping, test_order |-> test_order, auth |-> auth,
   sig |-> sig, body |-> body]

\* locals of one invocation; sigClass, ready (the parsed payload's status
\* is processing or completed), checked (the existence check found no row),
\* inserted, wrote and lost (the insert met a row of the same order) are
\* history, never read by the code
GReq(pc, path, orderId, sigClass) ==
  [pc |-> pc, path |-> path, orderId |-> orderId, sigClass |-> sigClass, ready |-> FALSE,
   licenseKey |-> NoKey, wkey |-> NoKey, reused |-> FALSE, checked |-> FALSE,
   inserted |-> FALSE, wrote |-> FALSE, lost |-> FALSE, resp |-> NoResp]

IdleGReq == GReq("idle", "none", NoOrder, "absent")

\* json(code, body)
Json(code, body) == Res(body, code)

\* return json(...): the handler ends, its response is the latest one sent
GFinish(p, r, resp) ==
  /\ greq' = [greq EXCEPT ![p] = IdleGReq]
  /\ glast' = [r EXCEPT !.pc = "done", !.resp = resp]

GContinue(p, r) ==
  /\ greq' = [greq EXCEPT ![p] = r]
  /\ UNCHANGED glast

\* json(200, { ok: true, ...info }) with info = { reused, license }
IssuedAsReady(r) == Json(200, [ok |-> TRUE, note |-> "Generator ready"])
Issued(r) == Json(200, [ok |-> TRUE, reused |-> r.reused, license |-> r.wkey])

\* an await inside ensureLicenseForOrder threw: the webhook path catches it
\* and answers fatal_error; the test_order path has no try/catch, the
\* invocation fails
Thrown(p, r) ==
  IF r.path = "hook"
    THEN GFinish(p, r, Json(200, [ok |-> FALSE, reason |-> "fatal_error"]))
    ELSE GFinish(p, r, Json(500, [errorType |-> "unhandled_rejection"]))

\* a guard that lets every order with an id through
QualifiesAnyStatus(orderId, status) == orderId # NoOrder

\* !(!orderId || !['processing', 'completed'].includes(status))
Qualifies(orderId, status) == orderId # NoOrder /\ status \in {"processing", "completed"}

\* generate.js handler lines 15-77: everything up to ensureLicenseForOrder
GenStart(p, q) ==
  /\ greq[p].pc = "idle"
  /\ LET cls == SigClass(q.sig, q.body)
         payloadId == IF q.body.json THEN q.body.id ELSE NoOrder
         status == ToLowerCase(q.body.status)
         Hook(pc) == [GReq(pc, "hook", payloadId, cls) EXCEPT
                        !.ready = (q.body.status \in {"processing", "Completed"})]
     IN
     IF q.method = "GET" /\ (q.ping \/ q.test_order # NoOrder)
       THEN IF q.test_order # NoOrder
              THEN IF q.auth # secret
                     THEN GFinish(p, GReq("idle", "test", q.test_order, cls),
                                  Json(401, [ok |-> FALSE, reason |-> "bad_secret"]))
                     ELSE GContinue(p, GReq("get", "test", q.test_order, cls))
              ELSE GFinish(p, GReq("idle", "ping", NoOrder, cls),
                           Json(200, [ok |-> TRUE, note |-> "Generator ready"]))
     ELSE IF ~Verified(q.sig, q.body)
       THEN GFinish(p, GReq("idle", "hook", payloadId, cls),
                    Json(200, [ok |-> TRUE, ignored |-> "bad_signature"]))
     ELSE IF ~q.body.json
       THEN GFinish(p, GReq("idle", "hook", payloadId, cls),
                    Json(200, [ok |-> TRUE, ignored |-> "bad_json"]))
     ELSE IF ~Qualifies(payloadId, status)
       THEN GFinish(p, Hook("idle"),
                    Json(200, [ok |-> TRUE, skipped |-> TRUE,
                               reason |-> "status_not_ready_or_no_id"]))
     ELSE GContinue(p, Hook("get"))
  /\ UNCHANGED <<licenses, ledgerVars, secret, woo, edgeVars>>

\* ensureLicenseForOrder lines 86-95: wooGet, then the order's _license_key
GWooGet(p) ==
  /\ greq[p].pc = "get"
  /\ \E fail \in BOOLEAN :
       LET r == greq[p]
           existingMeta == woo[r.orderId].meta
       IN IF fail
            THEN Thrown(p, r)
            ELSE IF existingMeta # NoKey
              THEN GFinish(p, r, Issued([r EXCEPT !.reused = TRUE, !.wkey = existingMeta]))
              ELSE GContinue(p, [r EXCEPT !.pc = "select"])
  /\ UNCHANGED <<licenses, ledgerVars, secret, woo, edgeVars>>

\* sbSelectLicenseByOrder: "ok" the rows, "http" an error status (null),
\* "net" a failed fetch (throws)
ByOrder(orderId) == {l \in licenses : l.order_id = orderId}
CallOutcomes == {"ok", "http", "net"}

\* ensureLicenseForOrder lines 97-104
GSelect(p) ==
  /\ greq[p].pc = "select"
  /\ \E out \in CallOutcomes :
       LET r == greq[p]
           found == IF out = "ok" THEN ByOrder(r.orderId) ELSE {}
       IN IF out = "net"
            THEN Thrown(p, r)
            ELSE IF found # {}
              THEN GContinue(p, [r EXCEPT !.pc = "meta", !.reused = TRUE,
                                        !.wkey = (CHOOSE l \in found : TRUE).key])
              ELSE GContinue(p, [r EXCEPT !.pc = "insert", !.checked = (out = "ok")])
  /\ UNCHANGED <<licenses, ledgerVars, secret, woo, edgeVars>>

\* a variant of the insert that overwrites the row of a key that exists
\* already (an upsert on the primary key)
GInsertReplacing(p) ==
  /\ greq[p].pc = "insert"
  /\ \E licenseKey \in GenKeys :
       LET r == [greq[p] EXCEPT !.licenseKey = licenseKey] IN
       /\ licenses' = {l \in licenses : l.key # licenseKey} \cup
                        {LicenseRow(licenseKey, "active", IssueMaxDevices, r.orderId)}
       /\ GContinue(p, [r EXCEPT !.pc = "meta", !.wkey = licenseKey, !.inserted = TRUE])
  /\ UNCHANGED <<ledgerVars, secret, woo, edgeVars>>

\* ensureLicenseForOrder lines 106-123 with sbInsertLicense: key is the
\* primary key and order_id is unique, the datastore rejects a duplicate of
\* either with a "duplicate key" message
GInsert(p) ==
  /\ greq[p].pc = "insert"
  /\ \E licenseKey \in GenKeys, fail \in BOOLEAN :
       LET r == [greq[p] EXCEPT !.licenseKey = licenseKey]
           duplicate == LicensesByKey(licenseKey) # {} \/ ByOrder(r.orderId) # {}
       IN IF fail
            THEN /\ GFinish(p, r, Json(200, [ok |-> TRUE, reused |-> FALSE,
                                             error |-> "db_insert_failed"]))
                 /\ UNCHANGED licenses
            ELSE IF duplicate
              THEN /\ GContinue(p, [r EXCEPT !.pc = "reselect",
                                            !.lost = r.checked /\ ByOrder(r.orderId) # {}])
                   /\ UNCHANGED licenses
              ELSE /\ licenses' = licenses \cup
                        {LicenseRow(licenseKey, "active", IssueMaxDevices, r.orderId)}
                   /\ GContinue(p, [r EXCEPT !.pc = "meta", !.wkey = licenseKey,
                                            !.inserted = TRUE])
  /\ UNCHANGED <<ledgerVars, secret, woo, edgeVars>>

\* ensureLicenseForOrder lines 111-118: after unique_violation read again;
\* without a row the code falls through with its own key
GReselect(p) ==
  /\ greq[p].pc = "reselect"
  /\ \E out \in CallOutcomes :
       LET r == greq[p]
           again == IF out = "ok" THEN ByOrder(r.orderId) ELSE {}
       IN IF out = "net"
            THEN Thrown(p, r)
            ELSE IF again # {}
              THEN GContinue(p, [r EXCEPT !.pc = "meta", !.reused = TRUE,
                                        !.wkey = (CHOOSE l \in again : TRUE).key])
              ELSE GContinue(p, [r EXCEPT !.pc = "meta", !.wkey = r.licenseKey])
  /\ UNCHANGED <<licenses, ledgerVars, secret, woo, edgeVars>>

\* wooPostMeta: an error status is logged and ignored, a failed fetch throws
GPostMeta(p) ==
  /\ greq[p].pc = "meta"
  /\ \E out \in CallOutcomes :
       LET r == greq[p] IN
       IF out = "net"
         THEN Thrown(p, r) /\ UNCHANGED woo
         ELSE IF out = "http"
           THEN GContinue(p, [r EXCEPT !.pc = "note"]) /\ UNCHANGED woo
           ELSE /\ woo' = [woo EXCEPT ![r.orderId].meta = r.wkey]
                /\ GContinue(p, [r EXCEPT !.pc = "note", !.wrote = TRUE])
  /\ UNCHANGED <<licenses, ledgerVars, secret, edgeVars>>

\* wooAddCustomerNote, then return { reused, license }: the status is not
\* looked at and a failed fetch is caught
GNote(p) ==
  /\ greq[p].pc = "note"
  /\ \E out \in CallOutcomes :
       LET r == greq[p] IN
       IF out = "ok"
         THEN /\ woo' = [woo EXCEPT ![r.orderId].notes = @ \cup {r.wkey}]
              /\ GFinish(p, [r EXCEPT !.wrote = TRUE], Issued(r))
         ELSE /\ UNCHANGED woo
              /\ GFinish(p, r, Issued(r))
  /\ UNCHANGED <<licenses, ledgerVars, secret, edgeVars>>

\* the body a sender signed before the payload was changed into b
Original(b) ==
  IF b.json THEN [b EXCEPT !.status = IF @ = "pending" THEN "processing" ELSE "pending"]
            ELSE Body(TRUE, 1, "processing")

\* the signature headers tried with a body b: none, text that is no MAC, the
\* MAC of b under the secret "s1" or under the empty key, and the MAC under
\* "s1" of the body before it was tampered with
SigsFor(b) == {NoSig, Garbage, Hmac("s1", b), Hmac("", b), Hmac("s1", Original(b))}

\* the requests that can arrive: GETs with query parameters, and deliveries
\* with a body and a signature header
Requests ==
  {Request("GET", pg, t, a, NoSig, Body(FALSE, NoOrder, "")) :
     pg \in BOOLEAN, t \in Orders \cup {NoOrder}, a \in {Undefined, "s1", "s2"}}
  \cup UNION {{Request(m, FALSE, NoOrder, Undefined, sg, b) : m \in {"GET", "POST"}, sg \in SigsFor(b)} :
                b \in Bodies}

\* the steps of the generate requests served by the slots P, drawn from Q
IssueSteps(P, Q) ==
  \/ \E p \in P, q \in Q : GenStart(p, q)
  \/ \E p \in P : GWooGet(p)
  \/ \E p \in P : GSelect(p)
  \/ \E p \in P : GInsert(p)
  \/ \E p \in P : GReselect(p)
  \/ \E p \in P : GPostMeta(p)
  \/ \E p \in P : GNote(p)

\* ------------------------------------------ webhook signature verifiers
\* texts are sequences of characters: 0 and 1 are characters of the base64
\* alphabet, 2 is a character outside ASCII
MaxSigLen == 3
Chars == 0..2
Texts == UNION {[1..n -> Chars] : n \in 0..MaxSigLen}

\* event.headers['x-wc-webhook-signature']: undefined, or a text (maybe '')
Header(text) == [present |-> TRUE, text |-> text]
AbsentHeader == [present |-> FALSE, text |-> <<>>]
SigHeaders == {AbsentHeader} \cup {Header(t) : t \in Texts}
\* event.body || ""
RawBodies == {"", "{}"}
SigSecrets == {Undefined, "", "s1"}

\* !x for a header or an env variable
Falsy(h) == ~h.present \/ h.text = <<>>
Unset(sec) == sec \in {Undefined, ""}

\* .digest("base64") of an HMAC-SHA256: a text of fixed length, distinct for
\* distinct (key, body)
Base64Digest(key, raw) == <<IF key = "" THEN 0 ELSE 1, IF raw = "" THEN 0 ELSE 1>>

\* Buffer.from(text): the UTF-8 bytes, two for a character outside ASCII
RECURSIVE Utf8(_)
Utf8(text) ==
  IF text = <<>> THEN <<>>
  ELSE (IF Head(text) = 2 THEN <<2, 3>> ELSE <<Head(text)>>) \o Utf8(Tail(text))

\* a call returns a value or throws
Returned(v) == [threw |-> FALSE, value |-> v]
Threw == [threw |-> TRUE, value |-> FALSE]

\* crypto.createHmac("sha256", key).update(raw).digest("base64"): a key that
\* is undefined makes createHmac throw a TypeError
CreateHmac(key, raw) ==
  IF key = Undefined THEN [threw |-> TRUE, value |-> <<>>]
  ELSE [threw |-> FALSE, value |-> Base64Digest(key, raw)]

\* crypto.timingSafeEqual(a, b) throws a RangeError for buffers of
\* different byte length
TimingSafeEqual(a, b) == IF Len(a) # Len(b) THEN Threw ELSE Returned(a = b)

\* a variant of verifySignature without the try/catch
VerifySignatureUncaught(rawBody, signatureBase64, sec) ==
  IF Falsy(signatureBase64) THEN Returned(FALSE)
  ELSE LET hmac == CreateHmac(sec, rawBody) IN
       IF hmac.threw THEN Threw
       ELSE TimingSafeEqual(Utf8(hmac.value), Utf8(signatureBase64.text))

\* part_003 lines 43-57: verifySignature(rawBody, signatureBase64, secret)
VerifySignature(rawBody, signatureBase64, sec) ==
  IF Falsy(signatureBase64) THEN Returned(FALSE)
  ELSE LET hmac == CreateHmac(sec, rawBody) IN
       IF hmac.threw THEN Returned(FALSE)
       ELSE LET eq == TimingSafeEqual(Utf8(hmac.value), Utf8(signatureBase64.text))
            IN IF eq.threw THEN Returned(FALSE) ELSE eq

\* part_004 lines 110-118: isValidSignature(rawBody, sigHeader), with the
\* module's WC_WEBHOOK_SECRET
IsValidSignature(rawBody, sigHeader, sec) ==
  IF Falsy(sigHeader) \/ Unset(sec) THEN Returned(FALSE)
  ELSE LET digest == CreateHmac(sec, rawBody) IN
       IF digest.threw THEN Returned(FALSE)
       ELSE LET eq == TimingSafeEqual(Utf8(sigHeader.text), Utf8(digest.value))
            IN IF eq.threw THEN Returned(FALSE) ELSE eq

\* String(a): the text "undefined" for an absent header, which is shorter
\* than a digest
UndefinedText == <<1>>
StringOf(h) == IF h.present THEN h.text ELSE UndefinedText

\* part_002 lines 16-26: safeEq(a, b), b the expected digest
SafeEq(a, b) ==
  LET A == Utf8(StringOf(a))
      B == Utf8(b)
  IN IF Len(A) # Len(B) THEN Returned(FALSE)
     ELSE LET eq == TimingSafeEqual(A, B)
          IN IF eq.threw THEN Returned(a.present /\ a.text = b) ELSE eq

\* generate.js lines 33-46: hasSig and digest === sig, the key being
\* WC_WEBHOOK_SECRET || ''
InlineVerified(sig, bodyRaw, sec) ==
  IF Falsy(sig) THEN Returned(FALSE)
  ELSE LET digest == CreateHmac(IF Unset(sec) THEN "" ELSE sec, bodyRaw) IN
       IF digest.threw THEN Returned(FALSE) ELSE Returned(digest.value = sig.text)

\* no verifier was called yet
SigCall(fn, rawBody, sig, out) == [fn |-> fn, rawBody |-> rawBody, sig |-> sig, out |-> out]
NoCall == SigCall("none", "", AbsentHeader, Returned(FALSE))

\* part_003 line 152: verifySignature(rawBody, sig, WC_WEBHOOK_SECRET)
CallVerifySignature ==
  /\ sigcall.fn = "none"
  /\ sigcall' = [sigcall EXCEPT !.fn = "verifySignature",
                                !.out = VerifySignature(sigcall.rawBody, sigcall.sig, secret)]
  /\ UNCHANGED <<licenses, ledgerVars, issueVars, cache, fetched>>

\* part_004 line 149: isValidSignature(rawBody, sig)
CallIsValidSignature ==
  /\ sigcall.fn = "none"
  /\ sigcall' = [sigcall EXCEPT !.fn = "isValidSignature",
                                !.out = IsValidSignature(sigcall.rawBody, sigcall.sig, secret)]
  /\ UNCHANGED <<licenses, ledgerVars, issueVars, cache, fetched>>

\* part_002 lines 54-60: the handler stops without a secret, computes the
\* expected digest and calls safeEq(provided, expected)
CallSafeEq ==
  /\ sigcall.fn = "none"
  /\ ~Unset(secret)
  /\ sigcall' = [sigcall EXCEPT !.fn = "safeEq",
                                !.out = SafeEq(sigcall.sig, Base64Digest(secret, sigcall.rawBody))]
  /\ UNCHANGED <<licenses, ledgerVars, issueVars, cache, fetched>>

\* generate.js lines 31-46
CallInlineVerified ==
  /\ sigcall.fn = "none"
  /\ sigcall' = [sigcall EXCEPT !.fn = "verified",
                                !.out = InlineVerified(sigcall.sig, sigcall.rawBody, secret)]
  /\ UNCHANGED <<licenses, ledgerVars, issueVars, cache, fetched>>

\* ------------------------------------------------------- service worker
\* a URL is an origin and a pathname; a pathname is the sequence of its
\* segments ("/" is the empty sequence)
Url(origin, pathname) == [origin |-> origin, pathname |-> pathname]
IndexHtml == Url("same", <<"index.html">>)
VerifyUrl == Url("same", <<".netlify", "functions", "verify">>)
ActivateUrl == Url("same", <<".netlify", "functions", "activate">>)
Urls ==
  {Url("same", <<>>), IndexHtml, Url("same", <<"icon-192.png">>), VerifyUrl, ActivateUrl,
   Url("cross", <<"lib.js">>)}

\* new URL(req.url).pathname.startsWith("/.netlify/")
StartsWithNetlify(pathname) == Len(pathname) >= 2 /\ pathname[1] = ".netlify"

\* e.request: the page is opened (mode navigate, always a GET) or a script
\* fetches a URL
SwRequest(method, mode, url) == [method |-> method, mode |-> mode, url |-> url]
SwRequests ==
  {SwRequest("GET", "navigate", u) : u \in {v \in Urls : v.origin = "same"}}
    \cup {SwRequest(m, "cors", u) : m \in {"GET", "POST"}, u \in Urls}

\* what the network does with one fetch: a response with a status, or the
\* fetch is rejected
NetOutcomes == {"200", "404", "offline"}

\* const CACHE, const ASSETS and the install handler: c.addAll(ASSETS)
CacheNames == {"mixer-v1", "mixer-v2", "mixer-v3"}
Assets == {Url("same", <<>>), IndexHtml, Url("same", <<"icon-192.png">>)}

\* caches.match(req): a stored response for the URL; only a GET matches
Match(req) == req.method = "GET" /\ req.url \in cache.entries
\* c.put(req, res.clone()): rejected for a request that is not a GET
Put(req) == IF req.method = "GET" THEN cache.entries \cup {req.url} ELSE cache.entries

\* the outcome of one fetch event: what answered the page (the network's
\* response or failure, the cached response of the request, the cached
\* index.html, the synthetic 503, or nothing), whether the network was
\* asked, and whether the response was put in the cache
Fetched(req, answer, network, stored) ==
  [req |-> req, answer |-> answer, network |-> network, stored |-> stored]
NoFetch == Fetched(SwRequest("GET", "cors", IndexHtml), "none", FALSE, FALSE)

\* the listener returns without respondWith: the browser fetches as if
\* there were no service worker
PassThrough(req) ==
  /\ fetched' = Fetched(req, "network", TRUE, FALSE)
  /\ UNCHANGED cache

\* network-first for a navigation: the response is put in the cache; when
\* the fetch is rejected, the cached page or the cached index.html answers
NetworkFirst(req, net) ==
  IF net # "offline"
    THEN /\ fetched' = Fetched(req, "network", TRUE, req.method = "GET")
         /\ cache' = [cache EXCEPT !.entries = Put(req)]
    ELSE /\ fetched' = Fetched(req, IF Match(req) THEN "cache"
                                    ELSE IF IndexHtml \in cache.entries THEN "index"
                                    ELSE "none", TRUE, FALSE)
         /\ UNCHANGED cache

\* sw.js lines 24-41: the fetch listener of mixer-v1
FetchV1(req, net) ==
  /\ cache.name = "mixer-v1"
  /\ IF req.mode = "navigate"
       THEN NetworkFirst(req, net)
       ELSE IF Match(req)
         THEN /\ fetched' = Fetched(req, "cache", FALSE, FALSE)
              /\ UNCHANGED cache
         ELSE IF net = "offline"
           THEN /\ fetched' = Fetched(req, "network", TRUE, FALSE)
                /\ UNCHANGED cache
           ELSE /\ fetched' = Fetched(req, "network", TRUE, req.method = "GET")
                /\ cache' = [cache EXCEPT !.entries = Put(req)]
  /\ UNCHANGED <<licenses, ledgerVars, issueVars, sigcall>>

\* sw.js lines 84-128: the fetch listener of mixer-v2
FetchV2(req, net) ==
  /\ cache.name = "mixer-v2"
  /\ IF req.method # "GET"
       THEN PassThrough(req)
       ELSE IF req.mode = "navigate"
         THEN NetworkFirst(req, net)
         ELSE IF req.url.origin = "same"
           THEN /\ fetched' = Fetched(req, IF Match(req) THEN "cache"
                                           ELSE IF net = "offline" THEN "none"
                                           ELSE "network", TRUE, net = "200")
                /\ cache' = IF net = "200" THEN [cache EXCEPT !.entries = Put(req)] ELSE cache
           ELSE PassThrough(req)
  /\ UNCHANGED <<licenses, ledgerVars, issueVars, sigcall>>

\* verify.js lines 92-124: the fetch listener of mixer-v3
FetchV3(req, net) ==
  /\ cache.name = "mixer-v3"
  /\ IF StartsWithNetlify(req.url.pathname)
       THEN PassThrough(req)
       ELSE IF req.mode = "navigate"
         THEN NetworkFirst(req, net)
         ELSE IF Match(req)
           THEN /\ fetched' = Fetched(req, "cache", FALSE, FALSE)
                /\ UNCHANGED cache
           ELSE IF net = "offline"
             THEN /\ fetched' = Fetched(req, "offline503", TRUE, FALSE)
                  /\ UNCHANGED cache
             ELSE /\ fetched' = Fetched(req, "network", TRUE, req.method = "GET")
                  /\ cache' = [cache EXCEPT !.entries = Put(req)]
  /\ UNCHANGED <<licenses, ledgerVars, issueVars, sigcall>>

\* no verifier was called and no service worker runs
EdgeQuiet ==
  /\ sigcall = NoCall
  /\ cache = [name |-> "none", entries |-> {}]
  /\ fetched = NoFetch

LedgerQuiet ==
  /\ activations = {}
  /\ now = 0
  /\ lreq = [p \in ReqIds |-> IdleReq]
  /\ last = IdleReq

IssueQuiet(sec) ==
  /\ secret = sec
  /\ woo = [o \in Orders |-> [meta |-> NoKey, notes |-> {}]]
  /\ greq = [p \in ReqIds |-> IdleGReq]
  /\ glast = IdleGReq

\* the registry is empty or holds one license made by hand; the secret is
\* configured or not
IssueInit ==
  /\ licenses \in {{}, {LicenseRow("K1", "active", 1, NoOrder)}}
  /\ LedgerQuiet
  /\ \E sec \in {Undefined, "s1"} : IssueQuiet(sec)
  /\ EdgeQuiet

\* deliveries are handled one at a time
IssueSeqNext == IssueSteps({1}, Requests)
IssueSeqSpec == IssueInit /\ [][IssueSeqNext]_vars

\* signed deliveries of paid orders run concurrently
PaidDeliveries ==
  {Request("POST", FALSE, NoOrder, Undefined, Hmac("s1", b), b) :
     b \in {Body(TRUE, o, "processing") : o \in Orders}}
IssueNext == IssueSteps(ReqIds, PaidDeliveries)
IssueSpec == IssueInit /\ [][IssueNext]_vars

\* licenses created by hand before any device calls (no order): K1 with an
\* allowance m, K2 with one device; K3 never is a license
AdminLicenses(m) ==
  {LicenseRow("K1", "active", m, NoOrder), LicenseRow("K2", "active", 1, NoOrder)}

LedgerInit ==
  /\ \E m \in 1..MaxCap : licenses = AdminLicenses(m)
  /\ LedgerQuiet
  /\ IssueQuiet("s1")
  /\ EdgeQuiet

ReqKeys == Keys \cup {Missing}
ReqDevices == Devices \cup {Missing}

\* the steps of the requests served by the slots P, with keys from K and
\* device ids from D
LedgerSteps(P, K, D) ==
  \/ \E p \in P, k \in K, d \in D : ActivateStart(p, k, d)
  \/ \E p \in P : ActLookup(p)
  \/ \E p \in P : ActReuse(p)
  \/ \E p \in P : ActCount(p)
  \/ \E p \in P : ActInsert(p)
  \/ \E p \in P, k \in K, d \in D : Deactivate(p, k, d)
  \/ \E k \in K \cap Keys : AdminRevoke(k)

\* requests are processed one at a time: one slot, each request runs to its
\* response before the next one arrives
LedgerSeqNext == LedgerSteps({1}, ReqKeys, ReqDevices)
LedgerSeqSpec == LedgerInit /\ [][LedgerSeqNext]_vars

\* requests for the license K1 interleave freely at their datastore calls
LedgerNext == LedgerSteps(ReqIds, {"K1"}, Devices)
LedgerSpec == LedgerInit /\ [][LedgerNext]_vars

TypeOK ==
  /\ now \in Times
  /\ \A a \in activations : a.license_key \in Keys /\ a.device_id \in Devices
  /\ \A p \in ReqIds : lreq[p].pc \in {"idle", "lookup", "update", "count", "insert", "vcount"}
  /\ last.pc \in {"idle", "done"}

\* ------------------------------------------------- reading the responses
Reason(resp) == IF "reason" \in DOMAIN resp.body THEN resp.body.reason ELSE "none"
Admitted(resp) == resp.body = [ok |-> TRUE, reused |-> FALSE]
Reused(resp) == resp.body = [ok |-> TRUE, reused |-> TRUE]
\* a response that reports a failed datastore call (or a license not read)
DatastoreFailure(resp) ==
  Reason(resp) \in {"not_found", "db_select_failed", "db_update_failed", "db_insert_failed"}

\* the devices that ever registered with a license: the rows of the table,
\* whatever their active flag
EverRegistered(key) == {a.device_id : a \in {b \in activations : b.license_key = key}}
MaxDevicesOf(key) == (CHOOSE l \in licenses : l.key = key).max_devices
Licensed(key) == \E l \in licenses : l.key = key

\* ------------------------------------------------------------------ C1
\* C1: with activate requests for distinct new devices of one license
\* interleaved at their datastore calls, no license ever has more distinct
\* registered devices than its max_devices.
C1_CapUnderConcurrency ==
  \A l \in licenses : Cardinality(EverRegistered(l.key)) <= l.max_devices

\* ------------------------------------------------------------------ C2
\* C2: with requests processed one at a time, after any sequence of activate
\* and deactivate calls every license has at most max_devices distinct
\* device_ids with an Activation row, and every row belongs to a license.
C2_CapSequential ==
  /\ \A a \in activations : Licensed(a.license_key)
  /\ \A l \in licenses :
       Cardinality({a.device_id : a \in RowsOfKey(l.key)}) <= l.max_devices

\* a license filled to its allowance has turned a further device away
C2_Witness ==
  /\ last.op = "activate" /\ Reason(last.resp) = "device_limit_reached"
  /\ Cardinality(EverRegistered(last.key)) = MaxDevicesOf(last.key)
  /\ MaxDevicesOf(last.key) = 2

\* ------------------------------------------------------------------ C3
\* C3: served one at a time, a device without a row is admitted (ok:true,
\* reused:false) only while fewer than max_devices devices ever registered
\* with the license, and is turned away with device_limit_reached exactly
\* when max_devices devices have, however many of them are deactivated; a
\* device that has a row is neither admitted anew nor turned away.
C3_FirstNAdmitted ==
  last.op = "activate" /\ Licensed(last.key) /\ last.dev # Missing =>
    LET n == MaxDevicesOf(last.key) IN
    /\ Admitted(last.resp) => ~last.preHas /\ last.preUsed < n
    /\ Reason(last.resp) = "device_limit_reached" => ~last.preHas /\ last.preUsed >= n
    /\ ~last.preHas /\ last.preUsed >= n =>
         Reason(last.resp) \in {"device_limit_reached", "revoked"} \/ DatastoreFailure(last.resp)
    /\ ~last.preHas /\ last.preUsed < n =>
         Admitted(last.resp) \/ Reason(last.resp) = "revoked" \/ DatastoreFailure(last.resp)
    /\ Admitted(last.resp) => last.dev \in EverRegistered(last.key)

\* the third device is turned away although both admitted devices are
\* deactivated
C3_Witness ==
  /\ last.op = "activate" /\ Reason(last.resp) = "device_limit_reached"
  /\ last.resp.body.max_devices = 2
  /\ Cardinality(EverRegistered(last.key)) = 2
  /\ \A a \in RowsOfKey(last.key) : ~a.active

\* ------------------------------------------------------------------ C4
\* C4: served one at a time, activate for a device that already has a row
\* is never turned away for the device limit nor admitted anew; on an active
\* license with the datastore answering it is answered reused:true, and
\* then the row is active, also when the license is at its allowance.
C4_ReuseSkipsCap ==
  last.op = "activate" /\ last.preHas =>
    /\ Reused(last.resp) \/ Reason(last.resp) = "revoked" \/ DatastoreFailure(last.resp)
    /\ Reused(last.resp) => \A a \in ActivationsOf(last.key, last.dev) : a.active

\* max_devices = 1: the admitted device is answered reused:true while the
\* license is full
C4_Witness ==
  /\ last.op = "activate" /\ last.preHas /\ Reused(last.resp)
  /\ MaxDevicesOf(last.key) = 1
  /\ Cardinality(EverRegistered(last.key)) >= MaxDevicesOf(last.key)
  /\ \E a \in ActivationsOf(last.key, last.dev) : a.active

\* ------------------------------------------- reading generate's responses
HasLicense(resp) == "license" \in DOMAIN resp.body
Ok(resp) == "ok" \in DOMAIN resp.body /\ resp.body.ok
PingAck(resp) == "note" \in DOMAIN resp.body /\ resp.body.note = "Generator ready"
GRequests == {greq[p] : p \in ReqIds} \cup {glast}

\* ------------------------------------------------------------------ C5
\* C5: with deliveries handled one at a time, when two deliveries in a row
\* for the same order are each answered with a license key, the keys are
\* equal, and the order has at most one License row.
C5_SameKeyTwice ==
  [][(/\ glast.path = "hook" /\ glast'.path = "hook"
      /\ glast'.orderId = glast.orderId
      /\ HasLicense(glast.resp) /\ HasLicense(glast'.resp))
       => /\ glast'.resp.body.license = glast.resp.body.license
          /\ Cardinality({l \in licenses' : l.order_id = glast.orderId}) <= 1]_vars

\* ------------------------------------------------------------------ C6
\* C6: an attempt that passed the existence check and whose insert then met
\* a row of the same order (it lost the race) answers, when it answers with
\* a key, the key of the order's one License row.
C6_LoserReturnsWinner ==
  glast.lost /\ HasLicense(glast.resp) =>
    /\ Cardinality(ByOrder(glast.orderId)) = 1
    /\ \A l \in ByOrder(glast.orderId) : glast.resp.body.license = l.key

\* ------------------------------------------------------------------ C7
\* C7: with the secret configured, a delivery whose signature header is
\* absent or is not the MAC of its exact body under the secret is answered
\* bad_signature at once: it never reaches issuance, inserts no License and
\* writes nothing upstream.
C7_UnsignedNeverIssues ==
  secret # Undefined =>
    \A r \in GRequests :
      r.path = "hook" /\ r.sigClass # "valid" =>
        /\ r.pc \in {"idle", "done"}
        /\ ~r.inserted /\ ~r.wrote
        /\ r.pc = "done" => r.resp.body = [ok |-> TRUE, ignored |-> "bad_signature"]

\* the MAC of the original body was sent with a tampered body
C7_Witness ==
  /\ secret = "s1"
  /\ glast.pc = "done" /\ glast.path = "hook" /\ glast.sigClass = "other_body"
  /\ glast.resp.body = [ok |-> TRUE, ignored |-> "bad_signature"]

\* ------------------------------------------------------------------ C8
\* C8: with the webhook secret not configured no request reaches issuance:
\* none is in flight, no License is inserted for an order and no response
\* carries a license.
C8_FailsClosed ==
  secret = Undefined =>
    /\ \A p \in ReqIds : greq[p].pc = "idle"
    /\ ~HasLicense(glast.resp)
    /\ \A l \in licenses : l.order_id = NoOrder

\* ------------------------------------------------------------------ C9
\* C9: a request is acknowledged as a ping ("Generator ready") exactly when
\* it took the ping branch, and such a request has inserted no License and
\* written nothing upstream.
C9_PingNeverIssues ==
  \A r \in GRequests :
    /\ r.path = "ping" => r.pc = "done" /\ PingAck(r.resp)
    /\ r.pc = "done" /\ PingAck(r.resp) => r.path = "ping" /\ ~r.inserted /\ ~r.wrote

\* a ping without signature header is acknowledged while a License issued
\* earlier is in the registry
C9_Witness ==
  /\ glast.pc = "done" /\ glast.path = "ping" /\ glast.sigClass = "absent"
  /\ PingAck(glast.resp)
  /\ \E l \in licenses : l.order_id # NoOrder

\* ------------------------------------------------------------------ C10
\* C10: a request that inserted the License row answers ok:true with that
\* key whatever happens to the write-back, and the row stays as inserted.
C10_WriteBackAdvisory ==
  glast.inserted =>
    /\ Ok(glast.resp) /\ HasLicense(glast.resp)
    /\ \E l \in licenses : l.key = glast.wkey /\ l.order_id = glast.orderId

\* ------------------------------------------------------------ the clock
\* time passes between two datastore calls: new Date() reads a later value
Tick ==
  /\ now < MaxClock
  /\ now' = now + 1
  /\ UNCHANGED <<licenses, activations, lreq, last, issueVars, edgeVars>>

\* ----------------------------------------------------- license verifier
\* .select('key, plan, status, expires_date'): no function writes
\* expires_date, the column is NULL in every row
Null == "null"
Selected(data) ==
  [key |-> data.key, plan |-> data.plan, status |-> data.status, expires_date |-> Null]

\* a variant of the deployed verifier that records the query on the rows of
\* the key
VerifyTouching(p, key) ==
  /\ lreq[p].pc = "idle"
  /\ LET r == LReq("idle", "verify", key, Missing, 0, NoResp,
                   Cardinality({a.device_id : a \in RowsOfKey(key)}), FALSE, activations)
     IN /\ Finish(p, r, Res([valid |-> LicensesByKey(key) # {}], 200))
        /\ activations' = {IF a.license_key = key THEN [a EXCEPT !.last_seen = now] ELSE a :
                             a \in activations}
  /\ UNCHANGED <<licenses, now, issueVars, edgeVars>>

\* verify.js handler lines 4-51: the key parameter, the one license read
\* (.single() reports an error for zero rows as well) and the answer
Verify(p, key) ==
  /\ lreq[p].pc = "idle"
  /\ LET r == LReq("idle", "verify", key, Missing, 0, NoResp,
                   Cardinality({a.device_id : a \in RowsOfKey(key)}), FALSE, activations)
     IN IF key = Missing
          THEN Finish(p, r, Res([valid |-> FALSE, reason |-> "missing_key"], 400))
          ELSE \E fail \in BOOLEAN :
                 LET found == LicensesByKey(key) IN
                 IF fail \/ found = {}
                   THEN Finish(p, r, Res([valid |-> FALSE, reason |-> "db_error",
                                         detail |-> DbErrorText], 500))
                   ELSE LET data == CHOOSE l \in found : TRUE IN
                        IF data.status # "active"
                          THEN Finish(p, r, Res([valid |-> FALSE, reason |-> "inactive",
                                                row |-> Selected(data)], 200))
                          ELSE Finish(p, r, Res([valid |-> TRUE, plan |-> data.plan,
                                                row |-> Selected(data)], 200))
  /\ UNCHANGED <<licenses, activations, now, issueVars, edgeVars>>

\* the verifier of part_006 lines 4-16: the key parameter and the license read
VerifyDevicesStart(p, key) ==
  /\ lreq[p].pc = "idle"
  /\ LET r == LReq("idle", "verify_devices", key, Missing, 0, NoResp,
                   Cardinality({a.device_id : a \in RowsOfKey(key)}), FALSE, activations)
     IN IF key = Missing
          THEN Finish(p, r, Res([valid |-> FALSE, reason |-> "missing_key"], 400))
          ELSE \E fail \in BOOLEAN :
                 LET found == LicensesByKey(key) IN
                 IF fail \/ found = {}
                   THEN Finish(p, r, Res([valid |-> FALSE, reason |-> "not_found"], 404))
                   ELSE LET lic == CHOOSE l \in found : TRUE IN
                        IF lic.status # "active"
                          THEN Finish(p, r, Res([valid |-> FALSE, reason |-> "revoked"], 403))
                          ELSE Continue(p, [r EXCEPT !.pc = "vcount", !.max = lic.max_devices])
  /\ UNCHANGED <<licenses, activations, now, issueVars, edgeVars>>

\* part_006 lines 18-32: count the devices of the key (0 when the read
\* fails) and answer
VerifyDevicesCount(p) ==
  /\ lreq[p].pc = "vcount"
  /\ \E fail \in BOOLEAN :
       LET r == lreq[p]
           uniqueCount == IF fail THEN 0 ELSE DistinctDevices(RowsOfKey(r.key))
       IN Finish(p, r, Res([valid |-> TRUE, plan |-> "full", status |-> "active",
                            max_devices |-> r.max, devices_used |-> uniqueCount], 200))
  /\ UNCHANGED <<licenses, activations, now, issueVars, edgeVars>>

\* the steps of the verify requests served by the slots P, with keys from K
VerifySteps(P, K) ==
  \/ \E p \in P, k \in K : Verify(p, k)
  \/ \E p \in P, k \in K : VerifyDevicesStart(p, k)
  \/ \E p \in P : VerifyDevicesCount(p)

\* ------------------------------------------------ the ledger over time
\* one license K1 created by hand with an allowance m; K3 is no license;
\* two devices call, one request at a time, while the clock advances
LifeKeys == {"K1", "K3"}
LifeDevices == {"dA", "dB"}

LifeInit ==
  /\ \E m \in 1..MaxCap : licenses = {LicenseRow("K1", "active", m, NoOrder)}
  /\ LedgerQuiet
  /\ IssueQuiet("s1")
  /\ EdgeQuiet

LifeNext ==
  \/ LedgerSteps({1}, LifeKeys, LifeDevices)
  \/ VerifySteps({1}, LifeKeys \cup {Missing})
  \/ Tick
LifeSpec == LifeInit /\ [][LifeNext]_vars

VerifyOps == {"verify", "verify_devices"}

\* --------------------------------- reading a step of the one-slot ledger
\* a step of the handler in slot 1 (not the clock, not the administrator)
HandlerStep == lreq' # lreq \/ last' # last \/ activations' # activations
\* the step is the first of its request: the request arrives and its first
\* datastore call is made
FirstStep == HandlerStep /\ lreq[1].pc = "idle"
\* the step sends the response last'
Answers == HandlerStep /\ lreq'[1].pc = "idle"
\* the request that arrives in a first step
Arrived == IF lreq'[1].pc = "idle" THEN last' ELSE lreq'[1]
Present(r) == r.key # Missing /\ r.dev # Missing
StatusOf(key) == (CHOOSE l \in licenses : l.key = key).status

\* ------------------------------------------------------------------ C11
\* C11: an activate call (key and device id given) whose key has no License
\* is answered not_found at its first step, and one whose License is not
\* active is answered revoked (not_found when the license read fails); that
\* step changes no Activation row and no License, whether or not the device
\* has a row.
C11_NoLicenseNoTouch ==
  [][(/\ FirstStep /\ Arrived.op = "activate" /\ Present(Arrived)
      /\ \A l \in LicensesByKey(Arrived.key) : l.status # "active")
       => /\ Answers
          /\ Reason(last'.resp) \in
               (IF Licensed(Arrived.key) THEN {"revoked", "not_found"} ELSE {"not_found"})
          /\ activations' = activations
          /\ activations' = last'.pre
          /\ licenses' = licenses]_vars

\* a device that has a row calls after its license was revoked and after the
\* clock moved on: it is answered revoked and its row is as it was
C11_Witness ==
  /\ last.op = "activate" /\ Reason(last.resp) = "revoked" /\ last.preHas
  /\ activations = last.pre
  /\ \E a \in ActivationsOf(last.key, last.dev) : a.last_seen < now

\* ------------------------------------------------------------------ C12
\* C12: served one at a time, an activate call of a device without a row on
\* a license that is active and has max_devices or more devices registered
\* is answered device_limit_reached (409) with the license's max_devices,
\* unless a datastore call fails; in either case the activations table stays
\* as it was when the call arrived.
C12_LimitReached ==
  (/\ last.op = "activate" /\ Present(last) /\ ~last.preHas
   /\ Licensed(last.key) /\ StatusOf(last.key) = "active"
   /\ last.preUsed >= MaxDevicesOf(last.key))
    => /\ Reason(last.resp) = "device_limit_reached" \/ DatastoreFailure(last.resp)
       /\ Reason(last.resp) = "device_limit_reached" =>
            /\ last.resp.statusCode = 409
            /\ last.resp.body.max_devices = MaxDevicesOf(last.key)
       /\ activations = last.pre

\* the second device is turned away from a license of one device, later
\* than the first device registered
C12_Witness ==
  /\ last.op = "activate" /\ ~last.preHas
  /\ Reason(last.resp) = "device_limit_reached" /\ last.resp.body.max_devices = 1
  /\ activations = last.pre /\ Cardinality(activations) = 1
  /\ \E a \in activations : a.first_activated < now

\* the activation row of a pair in a table, and the devices a table holds
\* for a key
RowIn(tbl, key, dev) == {a \in tbl : a.license_key = key /\ a.device_id = dev}
CountOf(tbl, key) == Cardinality({a.device_id : a \in {b \in tbl : b.license_key = key}})
SamePair(a, b) == a.license_key = b.license_key /\ a.device_id = b.device_id

\* ------------------------------------------------------------------ C13
\* C13: served one at a time, an activate of a device without a row on an
\* active license with spare capacity is answered reused:false unless a
\* datastore call fails; when an activate call was answered reused:false and
\* the next call answered is an activate of the same key and device, that
\* call finds the row and is answered reused:true (or revoked, or a
\* datastore failure), never reused:false or device_limit_reached; and no
\* step of any call changes the first_activated of a row.
C13_SecondIsReuse ==
  [][/\ \A a \in activations, b \in activations' :
          SamePair(a, b) => b.first_activated = a.first_activated
     /\ (/\ Answers /\ last'.op = "activate" /\ Present(last') /\ ~last'.preHas
         /\ Licensed(last'.key) /\ StatusOf(last'.key) = "active"
         /\ last'.preUsed < MaxDevicesOf(last'.key))
          => Admitted(last'.resp) \/ DatastoreFailure(last'.resp)
     /\ (/\ Answers /\ last.op = "activate" /\ Admitted(last.resp)
         /\ last'.op = "activate" /\ last'.key = last.key /\ last'.dev = last.dev)
          => /\ last'.preHas
             /\ \/ Reused(last'.resp)
                \/ Reason(last'.resp) = "revoked"
                \/ DatastoreFailure(last'.resp)]_vars

\* the device registered at time 0 activates again at time 1, with nothing
\* in between: reused:true, last_seen moves and first_activated stays
C13_Witness ==
  /\ last.op = "activate" /\ Reused(last.resp)
  /\ \E a \in RowIn(last.pre, last.key, last.dev) :
       a.active /\ a.first_activated = 0 /\ a.last_seen = 0
  /\ \E b \in ActivationsOf(last.key, last.dev) :
       b.active /\ b.first_activated = 0 /\ b.last_seen = 1

\* ------------------------------------------------------------------ C14
\* C14: served one at a time, a deactivate call leaves the number of
\* distinct devices of its license as it was; an activate of the same device
\* answered next brings the number back to what it was before the
\* deactivate and is neither an admission nor a rejection for the limit; and
\* a device is only admitted when the rows of the license, inactive ones
\* included, were fewer than max_devices.
C14_DeactivateFreesNothing ==
  [][Answers /\ last'.op \in {"activate", "deactivate"} =>
       /\ last'.op = "deactivate" =>
            CountOf(activations', last'.key) = CountOf(activations, last'.key)
       /\ (/\ last.op = "deactivate" /\ last.preHas /\ last'.op = "activate"
           /\ last'.key = last.key /\ last'.dev = last.dev)
            => /\ CountOf(activations', last'.key) = last.preUsed
               /\ ~Admitted(last'.resp)
               /\ Reason(last'.resp) # "device_limit_reached"
       /\ Admitted(last'.resp) =>
            /\ RowIn(last'.pre, last'.key, last'.dev) = {}
            /\ CountOf(last'.pre, last'.key) < MaxDevicesOf(last'.key)]_vars

\* the one device of a license is deactivated, and the other device is
\* still turned away
C14_Witness ==
  /\ last.op = "activate" /\ Reason(last.resp) = "device_limit_reached"
  /\ last.pre # {} /\ \A a \in last.pre : a.license_key = last.key /\ ~a.active
  /\ activations = last.pre

\* ------------------------------------------------------------------ C15
\* C15: a (license, device) pair that has an Activation row has one after
\* every step: rows are never deleted, and a step changes at most the
\* active flag and last_seen of a row.
C15_NeverUnregistered ==
  [][\A a \in activations : \E b \in activations' :
        SamePair(a, b) /\ b.first_activated = a.first_activated]_vars

\* a row that was inactive is active again
C15_Witness ==
  /\ last.op = "activate" /\ Reused(last.resp)
  /\ \E a \in RowIn(last.pre, last.key, last.dev) : ~a.active
  /\ \E b \in ActivationsOf(last.key, last.dev) : b.active

\* ------------------------------------------------------------------ C16
\* C16: a deactivate call (key and device id given) for a pair without an
\* Activation row, whether or not the key is a License, is answered ok:true
\* (200) unless the datastore call fails, and its step creates no row and
\* changes neither table nor the upstream orders.
C16_DeactivateMissingRow ==
  [][Answers /\ last'.op = "deactivate" /\ Present(last') /\ ~last'.preHas =>
       /\ last'.resp = Res([ok |-> TRUE], 200) \/ Reason(last'.resp) = "db_update_failed"
       /\ activations' = activations
       /\ licenses' = licenses
       /\ woo' = woo]_vars

\* a device deactivates under a key that is no license while another
\* license has a row
C16_Witness ==
  /\ last.op = "deactivate" /\ ~Licensed(last.key) /\ last.key # Missing
  /\ last.dev # Missing /\ ~last.preHas
  /\ last.resp = Res([ok |-> TRUE], 200)
  /\ activations = last.pre /\ activations # {}

\* ------------------------------------------------------------------ C17
\* C17: a deactivate call for a pair whose row is already inactive is
\* answered ok:true (or db_update_failed), and the row after the call equals
\* the row before the call.
C17_InactiveNoOp ==
  (last.op = "deactivate" /\ \E a \in RowIn(last.pre, last.key, last.dev) : ~a.active)
    => /\ last.resp = Res([ok |-> TRUE], 200) \/ Reason(last.resp) = "db_update_failed"
       /\ ActivationsOf(last.key, last.dev) = RowIn(last.pre, last.key, last.dev)

\* the request a step of the handler belongs to
StepReq == IF lreq[1].pc # "idle" THEN lreq[1] ELSE Arrived
Valid(resp) == "valid" \in DOMAIN resp.body /\ resp.body.valid

\* ------------------------------------------------------------------ C18
\* C18: no step of a verify request, whatever the key and whatever the
\* answer, changes the License table, the Activation table or the upstream
\* orders; when the answer is sent the Activation table is as it was when the
\* request arrived.
C18_VerifyReadsOnly ==
  [][HandlerStep /\ StepReq.op \in VerifyOps =>
       /\ licenses' = licenses
       /\ activations' = activations
       /\ woo' = woo
       /\ Answers => activations' = last'.pre]_vars

\* a valid answer of the deployed verifier for a license with a row, later
\* than the row was last touched
C18_Witness ==
  /\ last.op = "verify" /\ Valid(last.resp)
  /\ RowsOfKey(last.key) # {} /\ \A a \in RowsOfKey(last.key) : a.last_seen < now
  /\ activations = last.pre

\* ------------------------------------------------------------------ C19
\* C19: a verify request for a key (given) that has no License row is
\* answered valid:false with reason not_found and a status that is no
\* server error.
C19_UnknownKeyNotFound ==
  last.op \in VerifyOps /\ last.key # Missing /\ ~Licensed(last.key) =>
    /\ last.resp.body = [valid |-> FALSE, reason |-> "not_found"]
    /\ last.resp.statusCode < 500

\* ------------------------------------------------------------------ C20
\* C20: a verify request that arrives for a License whose status is not
\* active is answered at its first step valid:false with reason revoked (or
\* with the reason of a failed license read), and the answer carries neither
\* max_devices nor devices_used.
C20_InactiveIsRevoked ==
  [][(/\ FirstStep /\ Arrived.op \in VerifyOps
      /\ \E l \in LicensesByKey(Arrived.key) : l.status # "active")
       => /\ Answers
          /\ ~Valid(last'.resp)
          /\ Reason(last'.resp) \in {"revoked", "not_found", "db_error"}
          /\ DOMAIN last'.resp.body \cap {"max_devices", "devices_used", "remaining"} = {}]_vars

\* ------------------------------------------------------------------ C21
\* C21: a verify request for a License that is active is answered
\* valid:true (or with the reason of a failed license read), and a valid
\* answer carries the license's plan, status and max_devices and, as
\* devices_used, the number of distinct device_ids with an Activation row
\* for the key, active or not.
C21_ValidCarriesCapacity ==
  (last.op \in VerifyOps /\ Licensed(last.key) /\ StatusOf(last.key) = "active")
    => /\ Valid(last.resp) \/ Reason(last.resp) \in {"db_error", "not_found"}
       /\ Valid(last.resp) =>
            /\ {"plan", "status", "max_devices", "devices_used"} \subseteq DOMAIN last.resp.body
            /\ last.resp.body.plan = "full"
            /\ last.resp.body.status = "active"
            /\ last.resp.body.max_devices = MaxDevicesOf(last.key)
            /\ last.resp.body.devices_used = CountOf(last.pre, last.key)

\* ------------------------------------------------------------------ C23
\* C23: no response of activate or of a verifier has a field that carries
\* the message of a datastore error.
C23_NoDatastoreText ==
  last.op \in {"activate"} \cup VerifyOps => "detail" \notin DOMAIN last.resp.body

\* no generate request is in flight: the registry and the upstream orders
\* are as the request answered last left them
GQuiet == \A p \in ReqIds : greq[p].pc = "idle"
\* the requests in flight, or else the one answered last
Current == IF GQuiet THEN {glast} ELSE {greq[p] : p \in ReqIds}

\* ------------------------------------------------------------------ C22
\* C22: with deliveries handled one at a time, a key that the generator
\* handed to issuance and that was not inserted by this request is the key
\* of no License: the generator only accepts candidates that it found
\* absent from the registry.
C22_CandidateChecked ==
  \A r \in Current :
    r.licenseKey # NoKey /\ ~r.inserted => LicensesByKey(r.licenseKey) = {}

\* ------------------------------------------------------------------ C25
\* C25: with deliveries handled one at a time, a license key reported for an
\* order, as generated or as reused, is the key of a License row of that
\* order, and so is a key stored upstream as the order's _license_key.
C25_ReportedKeyHasRow ==
  /\ glast.pc = "done" /\ HasLicense(glast.resp) =>
       \E l \in ByOrder(glast.orderId) : l.key = glast.resp.body.license
  /\ \A o \in Orders :
       woo[o].meta # NoKey => \E l \in ByOrder(o) : l.key = woo[o].meta

\* ------------------------------------------------------------------ C26
\* C26: a request that generated a key, whose insert was not accepted and
\* that took over no row of the order (the insert failed for another reason
\* than the order's uniqueness) is answered ok:false, has added no License
\* row and has written nothing upstream.
C26_InsertFailureReported ==
  (/\ glast.pc = "done" /\ glast.licenseKey # NoKey
   /\ ~glast.inserted /\ glast.wkey = NoKey)
    => /\ ~Ok(glast.resp)
       /\ ~HasLicense(glast.resp)
       /\ ~glast.wrote

\* ------------------------------------------------------------------ C27
\* C27: a delivery that was authenticated and qualified and whose issuance
\* failed (it is answered ok:false, or with an error field) is answered
\* with a status outside 200..299.
C27_FailureIsNon2xx ==
  (/\ glast.pc = "done" /\ glast.path = "hook"
   /\ \/ "error" \in DOMAIN glast.resp.body
      \/ Reason(glast.resp) = "fatal_error")
    => glast.resp.statusCode \notin 200..299

\* ------------------------------------------------------------------ C28
\* C28: with the secret configured, a delivery with a valid signature that
\* carries no order id or whose status is neither processing nor completed
\* never reaches issuance (no upstream read or write, no License inserted)
\* and is answered skipped (bad_json when its body is no JSON).
C28_NotReadySkipped ==
  secret # Undefined =>
    \A r \in GRequests :
      (r.path = "hook" /\ r.sigClass = "valid" /\ (r.orderId = NoOrder \/ ~r.ready)) =>
        /\ r.pc \in {"idle", "done"}
        /\ ~r.inserted /\ ~r.wrote
        /\ r.pc = "done" =>
             r.resp \in {Json(200, [ok |-> TRUE, skipped |-> TRUE,
                                    reason |-> "status_not_ready_or_no_id"]),
                         Json(200, [ok |-> TRUE, ignored |-> "bad_json"])}

\* a signed event of order 1 in status pending is answered skipped
C28_Witness ==
  /\ secret = "s1"
  /\ glast.pc = "done" /\ glast.path = "hook" /\ glast.sigClass = "valid"
  /\ glast.orderId = 1 /\ ~glast.ready
  /\ "skipped" \in DOMAIN glast.resp.body
  /\ ByOrder(1) = {} /\ woo[1].meta = NoKey

\* ------------------------------------------------------------------ C29
\* C29: with deliveries handled one at a time, a request that found no
\* license metadata upstream while a License row of the order existed (it
\* inserted none itself) takes the key of that row: the key it writes
\* upstream and reports is the row's key, reported as reused, never a key
\* it generated.
C29_ExistingRowWrittenBack ==
  (/\ GQuiet /\ glast.pc = "done" /\ ~glast.inserted /\ ByOrder(glast.orderId) # {}
   /\ (glast.wkey # NoKey \/ glast.licenseKey # NoKey))
    => /\ glast.wkey # NoKey => \E l \in ByOrder(glast.orderId) : l.key = glast.wkey
       /\ HasLicense(glast.resp) =>
            /\ \E l \in ByOrder(glast.orderId) : l.key = glast.resp.body.license
            /\ glast.resp.body.reused
       /\ woo[glast.orderId].meta # NoKey =>
            \E l \in ByOrder(glast.orderId) : l.key = woo[glast.orderId].meta

\* ------------------------------------------------------------------ C30
\* C30: with activate requests interleaved at their datastore calls, a
\* request for a pair that had no row when it arrived and has one now (the
\* request itself or a concurrent one registered it) is not answered
\* db_insert_failed, and the pair has exactly one row.
C30_SamePairBothOk ==
  (/\ last.op = "activate" /\ ~last.preHas
   /\ ActivationsOf(last.key, last.dev) # {})
    => /\ Reason(last.resp) # "db_insert_failed"
       /\ Cardinality(ActivationsOf(last.key, last.dev)) = 1

\* ------------------------------------- registry, ledger and verifier
\* issuance for the signed deliveries of the paid order 1 next to the calls
\* of one device with the key K1, with one request of each kind in flight
\* at a time
FirstOrderDeliveries ==
  {Request("POST", FALSE, NoOrder, Undefined, Hmac("s1", b), b) :
     b \in {Body(TRUE, 1, "processing")}}

RegistryInit ==
  /\ licenses \in {{}, {LicenseRow("K1", "active", 1, NoOrder)}}
  /\ LedgerQuiet
  /\ IssueQuiet("s1")
  /\ EdgeQuiet

RegistryNext ==
  \/ IssueSteps({1}, FirstOrderDeliveries)
  \/ LedgerSteps({1}, {"K1"}, {"dA"})
  \/ VerifySteps({1}, {"K1"})
RegistrySpec == RegistryInit /\ [][RegistryNext]_vars

\* ------------------------------------------------------------------ C24
\* C24: no step of issuance, activate, deactivate, verify or revocation
\* removes a License row or changes its key, max_devices, order_id or plan:
\* every row of the registry is in the registry after the step, with at
\* most its status changed.
C24_LicenseRowsFixed ==
  [][\A l \in licenses : \E m \in licenses' :
        /\ m.key = l.key /\ m.max_devices = l.max_devices
        /\ m.order_id = l.order_id /\ m.plan = l.plan]_vars

\* the License of order 1 is in the registry after the order's event was
\* delivered again and answered as reused, and a device has registered
\* with it
C24_Witness ==
  /\ glast.pc = "done" /\ HasLicense(glast.resp) /\ glast.resp.body.reused
  /\ \E l \in ByOrder(glast.orderId) :
       /\ l.key = glast.resp.body.license /\ l.max_devices = IssueMaxDevices
       /\ RowsOfKey(l.key) # {}

\* ------------------------------------------------------------------ C31
\* the answer says that the license has no room for another device
NoCapacityLeft(resp) ==
  /\ {"devices_used", "max_devices"} \subseteq DOMAIN resp.body
  /\ resp.body.devices_used >= resp.body.max_devices

\* C31: a valid answer of a verifier for an active license reports
\* devices_used >= max_devices exactly when an activate for a device without
\* a row would be refused with device_limit_reached, that is when the
\* distinct device_ids recorded for the key reach the license's max_devices.
C31_VerifyAgreesWithCap ==
  (last.op \in VerifyOps /\ Valid(last.resp))
    => (NoCapacityLeft(last.resp)
          <=> CapReached(last.preUsed, MaxDevicesOf(last.key)))

\* ------------------------------------------------------------------ C32
\* the response reports a write on the row of its pair: a first activation,
\* a reactivation, or a deactivate of a device that has a row
WroteRow(r) ==
  \/ r.op = "activate" /\ (Admitted(r.resp) \/ Reused(r.resp))
  \/ r.op = "deactivate" /\ r.preHas /\ r.resp = Res([ok |-> TRUE], 200)

\* C32: the step that answers a successful activate (first activation or
\* reactivation) or a deactivate that finds a row leaves that row with
\* last_seen equal to the clock at the call; and in every step, the clock's
\* included, no row's last_seen decreases, no row has last_seen earlier than
\* first_activated, and the clock does not go back.
C32_LastSeenMonotone ==
  [][/\ now' >= now
     /\ \A a \in activations : \A b \in activations' :
          SamePair(a, b) => b.last_seen >= a.last_seen
     /\ \A b \in activations' : b.last_seen >= b.first_activated
     /\ (Answers /\ WroteRow(last')) =>
          /\ RowIn(activations', last'.key, last'.dev) # {}
          /\ \A b \in RowIn(activations', last'.key, last'.dev) : b.last_seen = now]_vars

\* a device registered at time 0 is deactivated at time 1: its row is seen
\* at 1 and was first activated at 0, while another row still is seen at 0
C32_Witness ==
  /\ last.op = "deactivate" /\ WroteRow(last)
  /\ now = 1
  /\ \E a \in RowIn(last.pre, last.key, last.dev) : a.last_seen = 0
  /\ \E b \in ActivationsOf(last.key, last.dev) :
       b.first_activated = 0 /\ b.last_seen = 1 /\ ~b.active
  /\ \E c \in activations : c.device_id # last.dev /\ c.last_seen = 0

\* ------------------------------------------------------------------ C33
\* C33: an activate or deactivate request that lacks the key or the device
\* id is answered {ok:false, reason:missing_params} with status 400 in its
\* first step, before any datastore call: the answer does not depend on the
\* datastore, no request stays in flight, and neither table changes.
C33_MissingParams ==
  [][(FirstStep /\ Arrived.op \in {"activate", "deactivate"} /\ ~Present(Arrived))
       => /\ Answers
          /\ last'.resp = Res([ok |-> FALSE, reason |-> "missing_params"], 400)
          /\ activations' = activations
          /\ activations' = last'.pre
          /\ licenses' = licenses]_vars

\* a deactivate with a key of a license that has a row, and no device id
C33_Witness ==
  /\ last.op = "deactivate" /\ last.key # Missing /\ last.dev = Missing
  /\ Reason(last.resp) = "missing_params"
  /\ RowsOfKey(last.key) # {} /\ activations = last.pre

\* ------------------------------------- the signature verifiers on inputs
\* one call of a verifier on a raw body and a signature header, the secret
\* being unset, empty or configured
SigInit ==
  /\ licenses = {}
  /\ LedgerQuiet
  /\ \E sec \in SigSecrets : IssueQuiet(sec)
  /\ \E raw \in RawBodies, h \in SigHeaders : sigcall = SigCall("none", raw, h, Returned(FALSE))
  /\ cache = [name |-> "none", entries |-> {}]
  /\ fetched = NoFetch

SigNext ==
  \/ CallVerifySignature
  \/ CallIsValidSignature
  \/ CallSafeEq
  \/ CallInlineVerified
SigSpec == SigInit /\ [][SigNext]_vars

\* --------------------------------------- the service worker's fetch events
\* one version of the worker is installed, its assets are cached; pages and
\* scripts fetch while the network comes and goes
WorkerInit ==
  /\ licenses = {}
  /\ LedgerQuiet
  /\ IssueQuiet("s1")
  /\ sigcall = NoCall
  /\ \E n \in CacheNames : cache = [name |-> n, entries |-> Assets]
  /\ fetched = NoFetch

WorkerNext ==
  \/ \E req \in SwRequests, net \in NetOutcomes : FetchV1(req, net)
  \/ \E req \in SwRequests, net \in NetOutcomes : FetchV2(req, net)
  \/ \E req \in SwRequests, net \in NetOutcomes : FetchV3(req, net)
WorkerSpec == WorkerInit /\ [][WorkerNext]_vars

\* ------------------------------------------------------------------ C34
\* base64(HMAC-SHA256(rawBody, secret)), the key being '' without a secret
ExpectedDigest(raw) == Base64Digest(IF secret = Undefined THEN "" ELSE secret, raw)

\* C34: a call of a signature verifier never throws, whatever the raw body
\* and the signature header; it answers not authenticated for a header that
\* is absent, empty, of another length than the expected digest, or another
\* text; and it answers authenticated only for a header equal to the
\* expected digest.
C34_VerifierTotal ==
  sigcall.fn # "none" =>
    LET sig == sigcall.sig
        expected == ExpectedDigest(sigcall.rawBody)
    IN /\ ~sigcall.out.threw
       /\ (Falsy(sig) \/ Len(sig.text) # Len(expected) \/ sig.text # expected)
            => ~sigcall.out.value
       /\ sigcall.out.value => sig.present /\ sig.text = expected

\* verifySignature gets a header longer than the digest, the secret being
\* configured: timingSafeEqual throws, and the call returns false
C34_Witness ==
  /\ sigcall.fn = "verifySignature" /\ secret = "s1"
  /\ sigcall.sig.present
  /\ Len(sigcall.sig.text) > Len(ExpectedDigest(sigcall.rawBody))
  /\ sigcall.out = Returned(FALSE)

\* ------------------------------------------------------------------ C35
\* C35: no URL whose path starts with /.netlify/ is stored in the service
\* worker's cache, and a fetch event for such a URL is answered by the
\* network (never by a cached or synthetic response), asks the network, and
\* stores nothing.
C35_FunctionsNeverCached ==
  /\ \A u \in cache.entries : ~StartsWithNetlify(u.pathname)
  /\ (fetched.answer # "none" /\ StartsWithNetlify(fetched.req.url.pathname))
       => fetched.answer = "network" /\ fetched.network /\ ~fetched.stored

====
